---- MODULE Spec2Model ----
(***************************************************************************)
(* types-generator: translation of the schemas of an OpenAPI 3.0 document  *)
(* into type declarations.                                                 *)
(*                                                                         *)
(* The program is src/README.md:86-363 (the TypeScript source of the       *)
(* translation engine), src/dist/generators/typescriptGenerator.js (the    *)
(* TypeScript generator) and src/bin/generate.js (a compiled build whose   *)
(* getDefinitions, fixErrorsOnProperty and checkOpenApiVersion are the     *)
(* same functions).  The type guards, the string utilities and the Flow    *)
(* and Codec generators are imported by that source and are not part of    *)
(* the files at hand.                                                      *)
(*                                                                         *)
(* Values.  A Property is a record whose DOMAIN is the set of keys the     *)
(* JSON object has ("k" in property  is  "k" \in DOMAIN property).  The    *)
(* key $ref is written ref.  Containers whose order is observable are      *)
(* sequences: allOf/anyOf/oneOf, enum, required, and properties and the    *)
(* schema map, which are sequences of <<key, property>> entries in         *)
(* declaration order (the order of Object.entries).  Texts are strings.    *)
(***************************************************************************)
EXTENDS Integers, Sequences, FiniteSets, TLC

VARIABLES
    options,         \* Options: [type, exitOnInvalidType]
    swagger,         \* the document given to generate
    property,        \* the property given to getType
    pc,              \* the step of the pipeline that runs next
    result,          \* the Either flowing through the pipeline (or a throw)
    steps,           \* the steps run so far, in order
    fixed,           \* successive results of fixErrorsOnProperty
    nullableResult   \* getType of the nullable-flagged counterpart

vars == <<options, swagger, property, pc, result, steps, fixed, nullableResult>>

----------------------------------------------------------------------------
(* fp-ts Either, and the outcome of a call that throws.                    *)

Right(v) == [tag |-> "Right", value |-> v]

Left(e) == [tag |-> "Left", error |-> e]

\* An uncaught exception (a TypeError of the JavaScript runtime).
Throw == [tag |-> "Throw", error |-> "TypeError"]

isRight(e) == e.tag = "Right"

isLeft(e) == e.tag = "Left"

isThrow(e) == e.tag = "Throw"

\* new Error(message + detail)
Error(message, detail) == [message |-> message, detail |-> detail]

None == [tag |-> "None"]

----------------------------------------------------------------------------
(* String utilities (services/utils).                                      *)

prefix(p, s) == p \o s

suffix(x, s) == s \o x

surround(a, b, s) == a \o s \o b

RECURSIVE join(_, _)
join(sep, xs) ==
    IF Len(xs) = 0 THEN ""
    ELSE IF Len(xs) = 1 THEN xs[1]
    ELSE xs[1] \o sep \o join(sep, Tail(xs))

\* String.prototype.toUpperCase on the one-character strings of the model.
toUpperCase(c) ==
    CASE c = "p" -> "P"
      [] c = "o" -> "O"
      [] c = "s" -> "S"
      [] OTHER -> c

\* A schema name is its text split at "-": a sequence of tokens, each token
\* its first character and the rest.
token(head, tail) == [head |-> head, tail |-> tail]

\* key.split("-").map(token => token[0].toUpperCase() + token.slice(1)).join("")
\* Every token of a name of the model has a first character: on an empty
\* token, token[0].toUpperCase() throws.
toPascalCase(name) ==
    join("", [i \in 1..Len(name) |-> toUpperCase(name[i].head) \o name[i].tail])

\* replace("#/components/schemas/", ""): a reference path is its prefix and
\* the name after it; the known prefix is removed.
SchemasPrefix == "#/components/schemas/"

replace(path) ==
    IF path.prefix = SchemasPrefix THEN path.name
    ELSE <<token(path.prefix, path.name[1].head \o path.name[1].tail)>>
             \o Tail(path.name)

----------------------------------------------------------------------------
(* fp-ts Array.traverse over Either, applied to the results of the calls   *)
(* f(a): traverse calls f on every element, left to right, before the      *)
(* applicative combines the results, so a call that throws ends the        *)
(* traversal with the exception whatever the earlier results were; without *)
(* a throw the first Left is the result; otherwise the Right values in     *)
(* order.                                                                  *)

FirstLeft(rs) == rs[CHOOSE i \in 1..Len(rs) :
                       /\ isLeft(rs[i])
                       /\ \A j \in 1..(i - 1) : ~isLeft(rs[j])]

traverseArray(rs) ==
    IF \E i \in 1..Len(rs) : isThrow(rs[i]) THEN Throw
    ELSE IF \E i \in 1..Len(rs) : isLeft(rs[i]) THEN FirstLeft(rs)
    ELSE Right([i \in 1..Len(rs) |-> rs[i].value])

----------------------------------------------------------------------------
(* The TypeScript generator (generators/typescriptGenerator).              *)

ts_getTypeString == "string"

ts_getTypeNumber == "number"

ts_getTypeInteger == "number"

ts_getTypeBoolean == "boolean"

ts_getTypeEnum(values) ==
    join("|", [i \in 1..Len(values) |-> surround("'", "'", values[i])])

ts_getTypeArray(type) == surround("Array<", ">", type)

ts_getTypeAnyOf(types) == join("|", types)

ts_getTypeOneOf(types) == join("|", types)

ts_getTypeAllOf(types) == join("&", types)

ts_getTypeObject(fields) == surround("{", "}", join(",", fields))

\* Mutant: the name of a reference is the text of the path, unconverted.
ts_getTypeReference_verbatim(name) ==
    join("-", [i \in 1..Len(name) |-> name[i].head \o name[i].tail])

ts_getTypeReference(name) == toPascalCase(name)

\* Mutant: the optional marker goes to the required fields.
ts_getProperty_marksRequired(key, required, type) ==
    prefix(suffix(":", IF required THEN suffix("?", surround("\"", "\"", key))
                       ELSE surround("\"", "\"", key)),
           type)

ts_getProperty(key, required, type) ==
    prefix(suffix(":", IF ~required THEN suffix("?", surround("\"", "\"", key))
                       ELSE surround("\"", "\"", key)),
           type)

ts_getTypeUnknown == "unknown"

ts_addHeader(text) == prefix("\"use strict\";\n", text)

ts_combineTypes(types) == join(";", types)

ts_getTypeDefinition(key, type) ==
    prefix("export type " \o toPascalCase(key) \o "=", type)

ts_makeTypeNullable(type) == surround("(", ")", suffix("|null", type))

----------------------------------------------------------------------------
(* The Codec generator (generators/codecGenerator): the same rendering     *)
(* primitives for the runtime-validating codec library.                    *)

codec_getTypeString == "t.string"

codec_getTypeNumber == "t.number"

codec_getTypeInteger == "t.number"

codec_getTypeBoolean == "t.boolean"

codec_getTypeEnum(values) ==
    surround("t.keyof({", "})",
             join(",", [i \in 1..Len(values) |-> surround("'", "':null", values[i])]))

codec_getTypeArray(type) == surround("t.array(", ")", type)

codec_getTypeAnyOf(types) == surround("t.union([", "])", join(",", types))

codec_getTypeOneOf(types) == surround("t.union([", "])", join(",", types))

codec_getTypeAllOf(types) == surround("t.intersection([", "])", join(",", types))

codec_getTypeObject(fields) == surround("t.type({", "})", join(",", fields))

codec_getTypeReference(name) == toPascalCase(name)

codec_getProperty(key, required, type) ==
    prefix(suffix(":", surround("\"", "\"", key)),
           IF ~required THEN surround("t.union([", ",t.undefined])", type) ELSE type)

codec_getTypeUnknown == "t.unknown"

codec_addHeader(text) == prefix("import * as t from \"io-ts\";\n", text)

codec_combineTypes(types) == join(";", types)

codec_getTypeDefinition(key, type) ==
    prefix("export const " \o toPascalCase(key) \o "=", type)

codec_makeTypeNullable(type) == surround("t.union([", ",t.null])", type)

----------------------------------------------------------------------------
(* getGenerator(options).<primitive>                                       *)

isTypeScript(o) == o.type = "TypeScript"

getTypeString(o) == IF isTypeScript(o) THEN ts_getTypeString ELSE codec_getTypeString

getTypeNumber(o) == IF isTypeScript(o) THEN ts_getTypeNumber ELSE codec_getTypeNumber

getTypeInteger(o) == IF isTypeScript(o) THEN ts_getTypeInteger ELSE codec_getTypeInteger

getTypeBoolean(o) == IF isTypeScript(o) THEN ts_getTypeBoolean ELSE codec_getTypeBoolean

getTypeEnum(o, values) ==
    IF isTypeScript(o) THEN ts_getTypeEnum(values) ELSE codec_getTypeEnum(values)

getTypeArray(o, type) ==
    IF isTypeScript(o) THEN ts_getTypeArray(type) ELSE codec_getTypeArray(type)

getTypeAnyOf(o, types) ==
    IF isTypeScript(o) THEN ts_getTypeAnyOf(types) ELSE codec_getTypeAnyOf(types)

getTypeOneOf(o, types) ==
    IF isTypeScript(o) THEN ts_getTypeOneOf(types) ELSE codec_getTypeOneOf(types)

getTypeAllOf(o, types) ==
    IF isTypeScript(o) THEN ts_getTypeAllOf(types) ELSE codec_getTypeAllOf(types)

getTypeObject(o, fields) ==
    IF isTypeScript(o) THEN ts_getTypeObject(fields) ELSE codec_getTypeObject(fields)

getTypeReference(o, name) ==
    IF isTypeScript(o) THEN ts_getTypeReference(name) ELSE codec_getTypeReference(name)

getProperty(o, key, required, type) ==
    IF isTypeScript(o) THEN ts_getProperty(key, required, type)
    ELSE codec_getProperty(key, required, type)

getTypeUnknown(o) == IF isTypeScript(o) THEN ts_getTypeUnknown ELSE codec_getTypeUnknown

addHeader(o, text) ==
    IF isTypeScript(o) THEN ts_addHeader(text) ELSE codec_addHeader(text)

combineTypes(o, types) ==
    IF isTypeScript(o) THEN ts_combineTypes(types) ELSE codec_combineTypes(types)

getTypeDefinition(o, key, type) ==
    IF isTypeScript(o) THEN ts_getTypeDefinition(key, type)
    ELSE codec_getTypeDefinition(key, type)

makeTypeNullable(o, type) ==
    IF isTypeScript(o) THEN ts_makeTypeNullable(type) ELSE codec_makeTypeNullable(type)

----------------------------------------------------------------------------
(* Type guards (type-guards): the structural predicate of each variant.    *)

has(p, k) == k \in DOMAIN p

isReference(p) == has(p, "ref")

isAllOf(p) == has(p, "allOf")

isOneOf(p) == has(p, "oneOf")

isAnyOf(p) == has(p, "anyOf")

isArray(p) == has(p, "type") /\ p.type = "array"

isObject(p) == has(p, "type") /\ p.type = "object"

isEnum(p) == has(p, "type") /\ p.type = "string" /\ has(p, "enum")

isNumber(p) == has(p, "type") /\ p.type = "number"

isString(p) == has(p, "type") /\ p.type = "string"

isBoolean(p) == has(p, "type") /\ p.type = "boolean"

isInteger(p) == has(p, "type") /\ p.type = "integer"

----------------------------------------------------------------------------
(* The translation engine.                                                 *)

getReferenceName(o, path) == getTypeReference(o, replace(path))

isRequired(key, p) ==
    has(p, "required") /\ \E i \in 1..Len(p.required) : p.required[i] = key

isNullable(p) == has(p, "nullable") /\ p.nullable = TRUE

\* const { k, ...otherProperties } = property
otherProperties(p, k) == [f \in (DOMAIN p) \ {k} |-> p[f]]

\* Mutant: the property is not normalized.
fixErrorsOnProperty_unchanged(p) == p

\* Mutant: the type stays on the outer level beside the composite.
fixErrorsOnProperty_keepsType(p) ==
    IF has(p, "allOf") /\ has(p, "type")
    THEN [allOf |-> Append(p.allOf, otherProperties(p, "allOf")), type |-> p.type]
    ELSE IF has(p, "oneOf") /\ has(p, "type")
    THEN [oneOf |-> Append(p.oneOf, otherProperties(p, "oneOf")), type |-> p.type]
    ELSE IF has(p, "anyOf") /\ has(p, "type")
    THEN [anyOf |-> Append(p.anyOf, otherProperties(p, "anyOf")), type |-> p.type]
    ELSE p

fixErrorsOnProperty(p) ==
    IF has(p, "allOf") /\ has(p, "type")
    THEN [allOf |-> Append(p.allOf, otherProperties(p, "allOf"))]
    ELSE IF has(p, "oneOf") /\ has(p, "type")
    THEN [oneOf |-> Append(p.oneOf, otherProperties(p, "oneOf"))]
    ELSE IF has(p, "anyOf") /\ has(p, "type")
    THEN [anyOf |-> Append(p.anyOf, otherProperties(p, "anyOf"))]
    ELSE p

\* Mutant: the exitOnInvalidType flag is not read.
getInvalidType_alwaysExits(o, p) == Left(Error("Invalid type: ", p))

getInvalidType(o, p) ==
    IF o.exitOnInvalidType THEN Left(Error("Invalid type: ", p))
    ELSE Right(getTypeUnknown(o))

\* Mutant: an allOf of any children is valid.
isValidAllOf_anyChildren(p) == isAllOf(p)

isValidAllOf(p) ==
    /\ isAllOf(p)
    /\ \A i \in 1..Len(p.allOf) : isReference(p.allOf[i]) \/ isObject(p.allOf[i])

RECURSIVE getType(_, _)

\* traverseArray(children, getType(options))
getTypes(o, children) ==
    traverseArray([i \in 1..Len(children) |-> getType(o, children[i])])

getTypeRef(o, p) == Right(getReferenceName(o, p.ref))

handleAllOf(o, p) ==
    LET types == getTypes(o, p.allOf)
    IN  IF isRight(types) THEN Right(getTypeAllOf(o, types.value)) ELSE types

handleOneOf(o, p) ==
    LET types == getTypes(o, p.oneOf)
    IN  IF isRight(types) THEN Right(getTypeOneOf(o, types.value)) ELSE types

handleAnyOf(o, p) ==
    LET types == getTypes(o, p.anyOf)
    IN  IF isRight(types) THEN Right(getTypeAnyOf(o, types.value)) ELSE types

\* property.items of an array without items is undefined, and
\* fixErrorsOnProperty(undefined) throws at  "allOf" in property.
handleArray(o, p) ==
    IF ~has(p, "items") THEN Throw
    ELSE LET type == getType(o, p.items)
         IN  IF isRight(type) THEN Right(getTypeArray(o, type.value)) ELSE type

\* Object.entries(property.properties || {})
entriesOf(p) == IF has(p, "properties") THEN p.properties ELSE <<>>

\* one entry: getType, then getProperty(key, isRequired(key, required))
handleField(o, p, entry) ==
    LET type == getType(o, entry[2])
    IN  IF isRight(type)
        THEN Right(getProperty(o, entry[1], isRequired(entry[1], p), type.value))
        ELSE type

handleObject(o, p) ==
    LET fields == traverseArray([i \in 1..Len(entriesOf(p)) |->
                                    handleField(o, p, entriesOf(p)[i])])
    IN  IF isRight(fields) THEN Right(getTypeObject(o, fields.value)) ELSE fields

\* Mutant: the String handler precedes the Enum handler.
handleProperty_stringBeforeEnum(o, p) ==
    IF isReference(p) THEN getTypeRef(o, p)
    ELSE IF isValidAllOf(p) THEN handleAllOf(o, p)
    ELSE IF isAnyOf(p) THEN handleAnyOf(o, p)
    ELSE IF isOneOf(p) THEN handleOneOf(o, p)
    ELSE IF isArray(p) THEN handleArray(o, p)
    ELSE IF isObject(p) THEN handleObject(o, p)
    ELSE IF isString(p) THEN Right(getTypeString(o))
    ELSE IF isEnum(p) THEN Right(getTypeEnum(o, p.enum))
    ELSE IF isNumber(p) THEN Right(getTypeNumber(o))
    ELSE IF isBoolean(p) THEN Right(getTypeBoolean(o))
    ELSE IF isInteger(p) THEN Right(getTypeInteger(o))
    ELSE getInvalidType(o, p)

\* The chain of property handlers: the first guard that holds decides.
handleProperty(o, p) ==
    IF isReference(p) THEN getTypeRef(o, p)
    ELSE IF isValidAllOf(p) THEN handleAllOf(o, p)
    ELSE IF isAnyOf(p) THEN handleAnyOf(o, p)
    ELSE IF isOneOf(p) THEN handleOneOf(o, p)
    ELSE IF isArray(p) THEN handleArray(o, p)
    ELSE IF isObject(p) THEN handleObject(o, p)
    ELSE IF isEnum(p) THEN Right(getTypeEnum(o, p.enum))
    ELSE IF isNumber(p) THEN Right(getTypeNumber(o))
    ELSE IF isString(p) THEN Right(getTypeString(o))
    ELSE IF isBoolean(p) THEN Right(getTypeBoolean(o))
    ELSE IF isInteger(p) THEN Right(getTypeInteger(o))
    ELSE getInvalidType(o, p)

\* E.map(doIf(isNullable(property), makeTypeNullable)), on the property
\* getType was called with.
doIfNullable(o, p, type) ==
    IF isRight(type) /\ isNullable(p) THEN Right(makeTypeNullable(o, type.value))
    ELSE type

getType(o, p) == doIfNullable(o, p, handleProperty(o, fixErrorsOnProperty(p)))

----------------------------------------------------------------------------
(* The document-level driver.                                              *)

Digits == {"0", "1", "2", "3", "4", "5", "6", "7", "8", "9"}

\* Mutant: only the major version is matched.
matchVersion_majorOnly(v) ==
    \E i \in 1..(Len(v) - 1) : v[i] = "3" /\ v[i + 1] = "."

\* version.match(/3\.0\.\d+/): the pattern is searched for anywhere in the
\* version, which is a sequence of characters.
matchVersion(v) ==
    \E i \in 1..(Len(v) - 4) :
        /\ v[i] = "3" /\ v[i + 1] = "." /\ v[i + 2] = "0" /\ v[i + 3] = "."
        /\ v[i + 4] \in Digits

\* swagger.openapi.match of a document without openapi throws.
checkOpenApiVersion(sw) ==
    IF ~has(sw, "openapi") THEN Throw
    ELSE IF matchVersion(sw.openapi) THEN Right(sw)
    ELSE Left(Error("Version not supported: ", join("", sw.openapi)))

\* swagger.components.schemas, which is undefined when components has no
\* schemas: [defined |-> FALSE].
schemasOf(components) ==
    IF has(components, "schemas")
    THEN [defined |-> TRUE, entries |-> components.schemas]
    ELSE [defined |-> FALSE]

getDefinitions(sw) ==
    IF has(sw, "components") THEN Right(schemasOf(sw.components))
    ELSE Left(Error("There is no definition", ""))

\* one entry: getType, then getTypeDefinition(key)
handleSchema(o, entry) ==
    LET type == getType(o, entry[2])
    IN  IF isRight(type) THEN Right(getTypeDefinition(o, entry[1], type.value))
        ELSE type

\* Object.entries(undefined) throws.
getTypesFromSchemas(o, schemas) ==
    IF ~schemas.defined THEN Throw
    ELSE traverseArray([i \in 1..Len(schemas.entries) |->
                           handleSchema(o, schemas.entries[i])])

baseDefinitionsToString(o, schemas) ==
    LET types == getTypesFromSchemas(o, schemas)
    IN  IF isRight(types) THEN Right(combineTypes(o, types.value)) ELSE types

\* Mutant: the two texts are joined in the other order.
eitherPrefix_swapped(b, c) ==
    IF isLeft(b) THEN b
    ELSE IF isLeft(c) THEN c
    ELSE Right(prefix(c.value, b.value))

\* E.ap(c)(E.map(prefix)(b))
eitherPrefix(b, c) ==
    IF isLeft(b) THEN b
    ELSE IF isLeft(c) THEN c
    ELSE Right(prefix(b.value, c.value))

\* E.map(prefix(";"))
prefixTerminator(c) == IF isRight(c) THEN Right(prefix(";", c.value)) ELSE c

\* The TypeScript pass is an argument of eitherPrefix, built whatever the
\* output type is; both passes have run before doIf decides.
definitionsToString(o, schemas) ==
    LET typeScript == baseDefinitionsToString([o EXCEPT !.type = "TypeScript"], schemas)
        base == baseDefinitionsToString(o, schemas)
    IN  IF isThrow(typeScript) \/ isThrow(base) THEN Throw
        ELSE IF o.type = "CodecIoTs" THEN eitherPrefix(typeScript, prefixTerminator(base))
        ELSE base

----------------------------------------------------------------------------
(* Inputs.                                                                 *)

MaxDepth == 2

MaxSchemas == 2

Pet == <<token("P", "et")>>

owner == <<token("o", "wner")>>

petStatus == <<token("p", "et"), token("s", "tatus")>>

SchemaNames == <<Pet, petStatus, owner, <<token("s", "tatus")>> >>

RefTo(name) == [ref |-> [prefix |-> SchemasPrefix, name |-> name]]

StringP == [type |-> "string"]

IntegerNullable == [type |-> "integer", nullable |-> TRUE]

EnumP == [type |-> "string", enum |-> <<"open", "closed">>]

\* two shapes no guard recognises
FileP == [type |-> "file"]

NoTypeP == [format |-> "int32"]

ArrayNoItems == [type |-> "array"]

ObjectEmpty == [type |-> "object"]

Leaf == {RefTo(Pet), StringP, IntegerNullable, EnumP, FileP, NoTypeP,
         ArrayNoItems, ObjectEmpty}

\* The properties that hold h as one of their children.
Wrap(h) ==
    { [type |-> "array", items |-> h],
      [type |-> "object", properties |-> << <<"a", h>> >>, required |-> <<"a">>],
      [type |-> "object", properties |-> << <<"a", StringP>>, <<"b", h>> >>,
       required |-> <<"a">>],
      [type |-> "object", properties |-> << <<"a", h>>, <<"b", FileP>> >>],
      [type |-> "object", properties |-> << <<"a", NoTypeP>>, <<"b", h>> >>],
      [allOf |-> <<RefTo(Pet), h>>],
      [anyOf |-> <<h, StringP>>],
      [oneOf |-> <<FileP, h>>],
      [allOf |-> <<h>>, type |-> "object", properties |-> << <<"x", StringP>> >>],
      [oneOf |-> <<h>>, type |-> "string"],
      [anyOf |-> <<h>>, allOf |-> <<RefTo(Pet)>>, type |-> "object"],
      [allOf |-> <<RefTo(Pet)>>, oneOf |-> <<h>>, anyOf |-> <<StringP>>,
       type |-> "object"],
      [allOf |-> <<h>>, properties |-> << <<"x", StringP>> >>] }

RECURSIVE Props(_)
Props(d) ==
    IF d = 0 THEN Leaf
    ELSE Leaf \cup UNION {Wrap(h) : h \in Props(d - 1)}

\* p with nullable: true
withNullable(p) ==
    [f \in (DOMAIN p) \cup {"nullable"} |-> IF f = "nullable" THEN TRUE ELSE p[f]]

\* Properties of which more than one guard of the handler chain holds, and
\* the two primitive types no other input has.
Overlapping ==
    { [ref |-> [prefix |-> SchemasPrefix, name |-> Pet], type |-> "object",
       properties |-> << <<"x", StringP>> >>],
      [ref |-> [prefix |-> SchemasPrefix, name |-> petStatus],
       anyOf |-> <<StringP>>],
      [ref |-> [prefix |-> SchemasPrefix, name |-> Pet], allOf |-> <<StringP>>,
       type |-> "object"],
      [allOf |-> <<RefTo(Pet), ObjectEmpty>>, anyOf |-> <<StringP>>,
       oneOf |-> <<EnumP>>],
      [allOf |-> <<StringP>>, anyOf |-> <<EnumP, RefTo(petStatus)>>,
       oneOf |-> <<StringP>>],
      [anyOf |-> <<StringP, IntegerNullable>>, oneOf |-> <<EnumP>>],
      [allOf |-> <<EnumP>>,
       oneOf |-> <<[type |-> "array", items |-> StringP],
                   [anyOf |-> <<StringP, RefTo(Pet)>>]>>],
      [type |-> "number"],
      [type |-> "boolean"],
      [type |-> "number", enum |-> <<"1", "2">>] }

PetSchema ==
    [type |-> "object", required |-> <<"name">>,
     properties |-> << <<"name", StringP>>, <<"age", IntegerNullable>> >>]

OrderSchema ==
    [type |-> "object", required |-> <<"a", "b">>,
     properties |-> << <<"b", EnumP>>, <<"a", RefTo(Pet)>> >>]

SchemaProps ==
    {PetSchema, OrderSchema, [type |-> "array", items |-> RefTo(Pet)], EnumP, FileP,
     RefTo(petStatus),
     [format |-> "int32", nullable |-> TRUE], ArrayNoItems,
     [type |-> "object", allOf |-> <<RefTo(Pet)>>,
      properties |-> << <<"x", StringP>> >>]}

\* The schema maps of at most MaxSchemas entries; entry i is named
\* SchemaNames[i].
SchemaMaps ==
    UNION {[1..n -> SchemaProps] : n \in 0..MaxSchemas}

entriesOfMap(m) == [i \in 1..Len(m) |-> <<SchemaNames[i], m[i]>>]

Versions ==
    { <<"3", ".", "0", ".", "0">>, <<"3", ".", "0", ".", "1", "2">>,
      <<"2", ".", "0">>, <<"3", ".", "1", ".", "0">>, <<"3", ".", "0", ".">>,
      <<"3", ".", "0", ".", "x">>, <<"1", "3", ".", "0", ".", "1">>,
      <<"3", ".", "0", ".", "1", "-", "r", "c">> }

Components ==
    {[securitySchemes |-> "none"]} \cup {[schemas |-> entriesOfMap(m)] : m \in SchemaMaps}

Docs ==
    {[info |-> "api"], [info |-> "api", components |-> [schemas |-> <<>>]]}
    \cup {[openapi |-> v] : v \in Versions}
    \cup {[openapi |-> v, components |-> c] : v \in Versions, c \in Components}

Options == [type : {"TypeScript", "CodecIoTs"}, exitOnInvalidType : BOOLEAN]

TypeOptions == [type : {"TypeScript"}, exitOnInvalidType : BOOLEAN]

NoSwagger == [info |-> "none"]

NoProperty == [none |-> TRUE]

----------------------------------------------------------------------------
(* generate(options)(swagger): checkOpenApiVersion, getDefinitions,        *)
(* definitionsToString and addHeader, chained; a Left skips the steps      *)
(* after it and a throw ends the run.                                      *)

Init ==
    /\ options \in Options
    /\ swagger \in Docs
    /\ property = NoProperty
    /\ pc = "checkOpenApiVersion"
    /\ result = None
    /\ steps = <<>>
    /\ fixed = <<>>
    /\ nullableResult = None

\* E.chain: the step named next runs on a Right only.
after(r, next) == IF isRight(r) THEN next ELSE "done"

CheckOpenApiVersion ==
    /\ pc = "checkOpenApiVersion"
    /\ result' = checkOpenApiVersion(swagger)
    /\ pc' = after(result', "getDefinitions")
    /\ steps' = Append(steps, "checkOpenApiVersion")
    /\ UNCHANGED <<options, swagger, property, fixed, nullableResult>>

GetDefinitions ==
    /\ pc = "getDefinitions"
    /\ result' = getDefinitions(result.value)
    /\ pc' = after(result', "definitionsToString")
    /\ steps' = Append(steps, "getDefinitions")
    /\ UNCHANGED <<options, swagger, property, fixed, nullableResult>>

DefinitionsToString ==
    /\ pc = "definitionsToString"
    /\ result' = definitionsToString(options, result.value)
    /\ pc' = after(result', "addHeader")
    /\ steps' = Append(steps, "definitionsToString")
    /\ UNCHANGED <<options, swagger, property, fixed, nullableResult>>

AddHeader ==
    /\ pc = "addHeader"
    /\ result' = Right(addHeader(options, result.value))
    /\ pc' = "done"
    /\ steps' = Append(steps, "addHeader")
    /\ UNCHANGED <<options, swagger, property, fixed, nullableResult>>

Next == CheckOpenApiVersion \/ GetDefinitions \/ DefinitionsToString \/ AddHeader

Spec == Init /\ [][Next]_vars

----------------------------------------------------------------------------
(* getType(options)(property), preceded by two applications of             *)
(* fixErrorsOnProperty and followed by getType of the counterpart of the   *)
(* property that has nullable: true.                                       *)

TypeInit ==
    /\ options \in TypeOptions
    /\ swagger = NoSwagger
    /\ property \in Props(MaxDepth) \cup Overlapping
    /\ pc = "fixErrorsOnProperty"
    /\ result = None
    /\ steps = <<>>
    /\ fixed = <<>>
    /\ nullableResult = None

FixErrorsOnProperty ==
    /\ pc = "fixErrorsOnProperty"
    /\ fixed' = Append(fixed, fixErrorsOnProperty(IF fixed = <<>> THEN property
                                                 ELSE fixed[Len(fixed)]))
    /\ pc' = IF fixed = <<>> THEN "fixErrorsOnProperty" ELSE "getType"
    /\ steps' = Append(steps, "fixErrorsOnProperty")
    /\ UNCHANGED <<options, swagger, property, result, nullableResult>>

GetType ==
    /\ pc = "getType"
    /\ result' = getType(options, property)
    /\ pc' = "getTypeNullable"
    /\ steps' = Append(steps, "getType")
    /\ UNCHANGED <<options, swagger, property, fixed, nullableResult>>

GetTypeNullable ==
    /\ pc = "getTypeNullable"
    /\ nullableResult' = getType(options, withNullable(property))
    /\ pc' = "done"
    /\ steps' = Append(steps, "getTypeNullable")
    /\ UNCHANGED <<options, swagger, property, fixed, result>>

TypeNext == FixErrorsOnProperty \/ GetType \/ GetTypeNullable

TypeSpec == TypeInit /\ [][TypeNext]_vars

----------------------------------------------------------------------------
(* Properties of getType (TypeSpec).                                       *)

translated == pc \in {"getTypeNullable", "done"}

\* C1: nullable wrapping commutes with every variant: when getType of a
\* property without the nullable flag succeeds with text t, getType of its
\* counterpart with nullable: true succeeds with makeTypeNullable(t).
C1_NullableCommutes ==
    (pc = "done" /\ ~isNullable(property) /\ isRight(result))
        => nullableResult = Right(makeTypeNullable(options, result.value))

\* Whether a guard of the handler chain holds of the normalized property q.
recognized(q) ==
    \/ isReference(q) \/ isValidAllOf(q) \/ isAnyOf(q) \/ isOneOf(q)
    \/ isArray(q) \/ isObject(q) \/ isEnum(q) \/ isNumber(q) \/ isString(q)
    \/ isBoolean(q) \/ isInteger(q)

\* The children the translation of the normalized property q descends into,
\* in declaration order.
childrenOf(q) ==
    IF isReference(q) THEN <<>>
    ELSE IF isValidAllOf(q) THEN q.allOf
    ELSE IF isAnyOf(q) THEN q.anyOf
    ELSE IF isOneOf(q) THEN q.oneOf
    ELSE IF isArray(q) THEN (IF has(q, "items") THEN <<q.items>> ELSE <<>>)
    ELSE IF isObject(q) THEN [i \in 1..Len(entriesOf(q)) |-> entriesOf(q)[i][2]]
    ELSE <<>>

RECURSIVE flatten(_)
flatten(xss) == IF Len(xss) = 0 THEN <<>> ELSE Head(xss) \o flatten(Tail(xss))

\* The unrecognized properties of the tree of p, in the order a
\* left-to-right, depth-first traversal meets them.
RECURSIVE unrecognizedIn(_)
unrecognizedIn(p) ==
    LET q == fixErrorsOnProperty(p)
    IN  IF ~recognized(q) THEN <<q>>
        ELSE flatten([i \in 1..Len(childrenOf(q)) |-> unrecognizedIn(childrenOf(q)[i])])

\* C2: fail-fast ordering: with exitOnInvalidType a tree that holds an
\* unrecognized property yields exactly the failure of the first one a
\* left-to-right, depth-first traversal meets.
C2_FailFastFirstInvalid ==
    (translated /\ options.exitOnInvalidType /\ unrecognizedIn(property) # <<>>)
        => result = Left(Error("Invalid type: ", Head(unrecognizedIn(property))))

\* C5 as stated: an unrecognized property fails with the invalid-type
\* error carrying that property when exitOnInvalidType is set, and succeeds
\* with the unknown type otherwise.
invalidTypeAsStated(p, r) ==
    ~recognized(fixErrorsOnProperty(p))
        => /\ options.exitOnInvalidType => r = Left(Error("Invalid type: ", p))
           /\ ~options.exitOnInvalidType => r = Right(getTypeUnknown(options))

invalidTypeBranch(p, r) ==
    /\ ~recognized(fixErrorsOnProperty(p))
         => /\ options.exitOnInvalidType
                  => r = Left(Error("Invalid type: ", fixErrorsOnProperty(p)))
            /\ ~options.exitOnInvalidType
                  => r = Right(IF isNullable(p)
                               THEN makeTypeNullable(options, getTypeUnknown(options))
                               ELSE getTypeUnknown(options))
    /\ ~options.exitOnInvalidType => ~isLeft(r)

----------------------------------------------------------------------------
(* Properties of generate (Spec).                                          *)

\* A version of the form 3.0.<digits>.
hasVersionForm(v) ==
    /\ Len(v) >= 5
    /\ v[1] = "3" /\ v[2] = "." /\ v[3] = "0" /\ v[4] = "."
    /\ \A i \in 5..Len(v) : v[i] \in Digits

\* C3 as stated: a document whose version is not of the form 3.0.<digits>
\* ends with the unsupported-version error after the version check alone.
C3_VersionFormAsStated ==
    (pc = "done" /\ has(swagger, "openapi") /\ ~hasVersionForm(swagger.openapi))
        => /\ result = Left(Error("Version not supported: ", join("", swagger.openapi)))
           /\ steps = <<"checkOpenApiVersion">>

\* 3.0.<digit> occurs somewhere in the version.
containsVersion(v) ==
    \E i \in 1..Len(v) :
        /\ i + 4 <= Len(v)
        /\ <<v[i], v[i + 1], v[i + 2], v[i + 3]>> = <<"3", ".", "0", ".">>
        /\ v[i + 4] \in Digits

\* C3 (amended): a document in whose version 3.0.<digit> occurs nowhere
\* ends with the unsupported-version error after the version check alone:
\* the schema section is not looked up and no schema is translated.
C3_UnsupportedVersion ==
    (has(swagger, "openapi") /\ ~containsVersion(swagger.openapi))
        => /\ pc \in {"checkOpenApiVersion", "done"}
           /\ pc = "done"
                => /\ result = Left(Error("Version not supported: ",
                                          join("", swagger.openapi)))
                   /\ steps = <<"checkOpenApiVersion">>

\* C3 witness: the version error has been reported for a document that
\* holds an unrecognized schema and is run with exitOnInvalidType.
C3_Witness ==
    /\ pc = "done"
    /\ has(swagger, "openapi") /\ ~containsVersion(swagger.openapi)
    /\ has(swagger, "components") /\ has(swagger.components, "schemas")
    /\ \E i \in 1..Len(swagger.components.schemas) :
           swagger.components.schemas[i][2] = FileP
    /\ options.exitOnInvalidType
    /\ isLeft(result)

lacksSchemas(sw) == ~has(sw, "components") \/ ~has(sw.components, "schemas")

\* C4: a document of a supported version without a schema map ends with
\* the no-definitions error.
C4_NoDefinitions ==
    (/\ pc = "done"
     /\ has(swagger, "openapi") /\ hasVersionForm(swagger.openapi)
     /\ lacksSchemas(swagger))
        => result = Left(Error("There is no definition", ""))

\* The declarations of the schemas, each rendered by the generator of o
\* and all combined in declaration order.
renderingOf(o, entries) ==
    combineTypes(o, [i \in 1..Len(entries) |->
        getTypeDefinition(o, entries[i][1], getType(o, entries[i][2]).value)])

typeScriptOptions == [options EXCEPT !.type = "TypeScript"]

generated == pc = "done" /\ isRight(result)

\* C6 as stated: the Codec output is the TypeScript rendering of the
\* schemas, then ";", then the codec declarations.
C6_CodecAsStated ==
    (generated /\ options.type = "CodecIoTs")
        => result.value = renderingOf(typeScriptOptions, swagger.components.schemas)
                            \o ";" \o renderingOf(options, swagger.components.schemas)

\* C6 (amended): the Codec output is the Codec generator's header, then the
\* TypeScript rendering of the schemas, then ";", then the codec
\* declarations.
C6_CodecOutput ==
    (generated /\ options.type = "CodecIoTs")
        => result.value =
             codec_addHeader(renderingOf(typeScriptOptions, swagger.components.schemas)
                             \o ";" \o renderingOf(options, swagger.components.schemas))

\* C6 witness: a Codec run over two schemas has succeeded.
C6_Witness ==
    /\ generated /\ options.type = "CodecIoTs"
    /\ Len(swagger.components.schemas) = 2

\* An object that no earlier guard of the chain takes.
isPlainObject(p) ==
    isObject(p) /\ (DOMAIN p) \cap {"ref", "allOf", "anyOf", "oneOf", "nullable"} = {}

\* A field as the claim renders it: quoted name, "?" when the name is not
\* in the required list, ":" and the field's type.
expectedField(o, p, entry) ==
    "\"" \o entry[1] \o "\""
        \o (IF has(p, "required") /\ entry[1] \in {p.required[i] : i \in 1..Len(p.required)}
            THEN "" ELSE "?")
        \o ":" \o getType(o, entry[2]).value

expectedType(o, p) ==
    IF isPlainObject(p)
    THEN "{" \o join(",", [i \in 1..Len(entriesOf(p)) |->
                               expectedField(o, p, entriesOf(p)[i])]) \o "}"
    ELSE getType(o, p).value

expectedDeclarations(o, entries) ==
    join(";", [i \in 1..Len(entries) |->
        "export type " \o toPascalCase(entries[i][1]) \o "="
            \o expectedType(o, entries[i][2])])

isPetExample == swagger.components.schemas = << <<Pet, PetSchema>> >>

PetDeclaration == "export type Pet={\"name\":string,\"age\"?:(number|null)}"

\* C7 as stated: for the schema set {Pet} the output of generate is the
\* declaration of Pet.
C7_PetAsStated ==
    (generated /\ options.type = "TypeScript" /\ isPetExample)
        => result.value = PetDeclaration

\* C7 (amended): the output of the TypeScript generator is its header
\* followed by the declarations, an object's fields in declaration order,
\* each optional exactly when not required; for {Pet} it is the header
\* followed by the declaration of Pet.
C7_ObjectRendering ==
    (generated /\ options.type = "TypeScript")
        => /\ result.value = "\"use strict\";\n"
                \o expectedDeclarations(options, swagger.components.schemas)
           /\ isPetExample => result.value = "\"use strict\";\n" \o PetDeclaration

\* C7 witness: the Pet example has been generated.
C7_Witness == generated /\ options.type = "TypeScript" /\ isPetExample

\* C10: generate ends with a Right or a Left, never with a throw.
C10_NoUncaughtFault == pc = "done" => result.tag \in {"Right", "Left"}

----------------------------------------------------------------------------
(* Properties of normalization (TypeSpec).                                 *)

compositeKeys(p) == {k \in {"allOf", "oneOf", "anyOf"} : has(p, k)}

siblingFields == {"type", "properties", "required", "items", "enum"}

\* The composite k of p with the other fields of p as its last member.
asComposite(p, k) == [f \in {k} |-> Append(p[k], otherProperties(p, k))]

\* C8 as stated: a composite keyword beside any other type-describing
\* field is translated as that composite with the other fields as its last
\* member.
C8_AnySiblingAsStated ==
    (/\ translated
     /\ compositeKeys(property) # {}
     /\ (DOMAIN property) \cap siblingFields # {})
        => \E k \in compositeKeys(property) :
              /\ fixed[1] = asComposite(property, k)
              /\ result = doIfNullable(options, property,
                                       handleProperty(options, asComposite(property, k)))

firstComposite(p) ==
    IF has(p, "allOf") THEN "allOf" ELSE IF has(p, "oneOf") THEN "oneOf" ELSE "anyOf"

\* The translation of the members of a composite, from their own
\* translations: an intersection for allOf, a union otherwise.
expectedComposite(o, k, members) ==
    LET rs == [i \in 1..Len(members) |-> getType(o, members[i])]
    IN  IF k = "allOf" /\ \E i \in 1..Len(members) :
                               ~(has(members[i], "ref") \/ isObject(members[i]))
        THEN getInvalidType(o, [f \in {k} |-> members])
        ELSE IF \E i \in 1..Len(rs) : isThrow(rs[i]) THEN Throw
        ELSE IF \E i \in 1..Len(rs) : isLeft(rs[i]) THEN FirstLeft(rs)
        ELSE Right(join(IF k = "allOf" THEN "&" ELSE "|",
                        [i \in 1..Len(rs) |-> rs[i].value]))

\* C8 (amended): a composite keyword beside a type field is translated as
\* the first composite among allOf, oneOf, anyOf whose members are its
\* declared children followed by one member holding all the other fields.
C8_CompositeNormalization ==
    (translated /\ compositeKeys(property) # {} /\ has(property, "type"))
        => LET k == firstComposite(property)
               members == Append(property[k], otherProperties(property, k))
               r == expectedComposite(options, k, members)
           IN  /\ fixed[1] = asComposite(property, k)
               /\ result = IF isRight(r) /\ isNullable(property)
                            THEN Right("(" \o r.value \o "|null)") ELSE r

\* C8 witness: the example of the claim has been translated.
C8_Witness ==
    /\ translated
    /\ property = [type |-> "object", allOf |-> <<RefTo(Pet)>>,
                   properties |-> << <<"x", StringP>> >>]
    /\ fixed[1] = [allOf |-> <<RefTo(Pet), [type |-> "object",
                                            properties |-> << <<"x", StringP>> >>]>>]
    /\ result = Right("Pet&{\"x\"?:string}")

\* C9: normalization is idempotent.
C9_Idempotent == Len(fixed) = 2 => fixed[2] = fixed[1]

\* C9 witness: a property with three composite keywords and a type has
\* been normalized twice, and the first normalization changed it.
C9_Witness ==
    /\ Len(fixed) = 2
    /\ Cardinality(compositeKeys(property)) = 3
    /\ has(property, "type")
    /\ fixed[1] # property

----------------------------------------------------------------------------
(* Properties of the composite handlers (TypeSpec).                        *)

separatorOf(k) == IF k = "allOf" THEN "&" ELSE "|"

renderedComposite(q) ==
    IF /\ has(q, "allOf")
       /\ \A i \in 1..Len(q.allOf) :
              \/ has(q.allOf[i], "ref")
              \/ (has(q.allOf[i], "type") /\ q.allOf[i].type = "object")
    THEN "allOf"
    ELSE IF has(q, "anyOf") THEN "anyOf"
    ELSE IF has(q, "oneOf") THEN "oneOf"
    ELSE "none"

nullableText(p, text) ==
    IF has(p, "nullable") /\ p.nullable = TRUE THEN "(" \o text \o "|null)" ELSE text

----------------------------------------------------------------------------
(* Properties of the classification (TypeSpec).                            *)

Variants ==
    <<"Reference", "AllOf", "AnyOf", "OneOf", "Array", "Object", "Enum",
      "Number", "String", "Boolean", "Integer">>

hasType(q, t) == has(q, "type") /\ q.type = t

\* The structural predicate of variant v, where that of AllOf is allOf.
matchesAsStated(v, q) ==
    CASE v = "Reference" -> has(q, "ref")
      [] v = "AllOf" -> has(q, "allOf")
      [] v = "AnyOf" -> has(q, "anyOf")
      [] v = "OneOf" -> has(q, "oneOf")
      [] v = "Array" -> hasType(q, "array")
      [] v = "Object" -> hasType(q, "object")
      [] v = "Enum" -> hasType(q, "string") /\ has(q, "enum")
      [] v = "Number" -> hasType(q, "number")
      [] v = "String" -> hasType(q, "string")
      [] v = "Boolean" -> hasType(q, "boolean")
      [] v = "Integer" -> hasType(q, "integer")

\* The structural predicate of variant v, where that of AllOf is an allOf
\* whose members are references or objects.
matches(v, q) ==
    IF v = "AllOf"
    THEN /\ has(q, "allOf")
         /\ \A i \in 1..Len(q.allOf) :
                has(q.allOf[i], "ref") \/ hasType(q.allOf[i], "object")
    ELSE matchesAsStated(v, q)

\* The case of variant v applied to q.
applied(v, o, q) ==
    CASE v = "Reference" -> getTypeRef(o, q)
      [] v = "AllOf" -> handleAllOf(o, q)
      [] v = "AnyOf" -> handleAnyOf(o, q)
      [] v = "OneOf" -> handleOneOf(o, q)
      [] v = "Array" -> handleArray(o, q)
      [] v = "Object" -> handleObject(o, q)
      [] v = "Enum" -> Right(getTypeEnum(o, q.enum))
      [] v = "Number" -> Right(getTypeNumber(o))
      [] v = "String" -> Right(getTypeString(o))
      [] v = "Boolean" -> Right(getTypeBoolean(o))
      [] v = "Integer" -> Right(getTypeInteger(o))

least(M) == CHOOSE i \in M : \A j \in M : i <= j

matching(q) == {i \in 1..Len(Variants) : matches(Variants[i], q)}

matchingAsStated(q) == {i \in 1..Len(Variants) : matchesAsStated(Variants[i], q)}

C12_EnumWitness ==
    /\ translated
    /\ {7, 9} \subseteq matching(fixed[1])
    /\ result = Right(getTypeEnum(options, property.enum))

----------------------------------------------------------------------------
(* Properties of the names (Spec).                                         *)

\* The translation of a reference property whose path is
\* "#/components/schemas/" followed by key.
referenceTo(o, key) == getType(o, [ref |-> [prefix |-> SchemasPrefix, name |-> key]])

\* C13: in the TypeScript output of generate, the name declared for each
\* schema K is the name to which a reference to "#/components/schemas/K"
\* is translated: the output is the header followed by the declarations
\* "export type N=T" in declaration order, N the translation of the
\* reference to K and T the translation of the schema.
C13_ReferenceNames ==
    (generated /\ options.type = "TypeScript")
        => LET entries == swagger.components.schemas
               name(i) == referenceTo(options, entries[i][1])
           IN  /\ \A i \in 1..Len(entries) : isRight(name(i))
               /\ result.value =
                     "\"use strict\";\n"
                        \o join(";", [i \in 1..Len(entries) |->
                               "export type " \o name(i).value \o "="
                                  \o getType(options, entries[i][2]).value])

\* C13 witness: a document whose first schema is a reference to its second
\* schema, pet-status, has been generated; the reference and the
\* declaration have the one name PetStatus.
C13_Witness ==
    /\ generated
    /\ options.type = "TypeScript"
    /\ swagger.components.schemas =
          << <<Pet, [ref |-> [prefix |-> SchemasPrefix, name |-> petStatus]]>>,
             <<petStatus, EnumP>> >>
    /\ result.value =
          "\"use strict\";\nexport type Pet=PetStatus;export type PetStatus='open'|'closed'"

====
